---- MODULE Spec2Model ----
(***************************************************************************)
(* RTP -> H.265 (HEVC) depacketizer of WirelessPastLoaderForIos/Debug.     *)
(*                                                                         *)
(* Two programs share the depacketizer design:                             *)
(*   h265_receiver.py  - the online receiver; its fragment store is keyed  *)
(*                       by (ssrc, timestamp, start_seq) and swept on a    *)
(*                       500 ms timeout;                                   *)
(*   extract_h265.py   - the offline extractor; its fragment store is      *)
(*                       keyed by timestamp alone and never swept.         *)
(*                                                                         *)
(* Bytes are integers 0..255, byte strings are sequences of bytes.  Python *)
(* offsets are 0-based, sequence indices here are 1-based: payload[k] of   *)
(* the source is payload[k+1] below.  Times are in milliseconds.           *)
(***************************************************************************)
EXTENDS Integers, Sequences, FiniteSets, TLC

(***************************************************************************)
(* Bounds of the model.                                                    *)
(***************************************************************************)
\* packets put on the wire (delivered or lost) in one behaviour
MaxPkts == 4
\* fragments of one NAL in the two-sender scenario
MaxFrags == 3
\* packets sent in the behaviours of whole packets (SpecWhole)
MaxWhole == 2
\* NAL units in one aggregation packet
MaxApNals == 2
\* datagrams sent to the online receiver (SpecRecv)
MaxRecv == 3
\* the clock of the online receiver stops here, in ms
MaxClock == 1500
\* frames the codec yields for one buffer
MaxFrames == 1
\* datagrams fed to the two programs in the behaviours of raw datagrams
\* (SpecRaw)
MaxRaw == 3
\* datagrams that arrive after the backlog (SpecQueue)
MaxOver == 4
\* datagrams that arrive before the receiver is quit or after (SpecStop)
MaxStop == 2
\* datagrams with sequence numbers in any order (SpecLoss)
MaxLoss == 3
\* the processor thread takes a packet only while fewer than MaxLag places
\* of packet_queue are free (SpecQueue)
MaxLag == 3
\* length of the long NAL unit (its size needs both bytes of the size field)
BigLen == 258
\* the clock stops advancing here
MaxTime == 750

(***************************************************************************)
(* Program constants.                                                      *)
(***************************************************************************)
\* self.fragment_timeout = 0.5 (seconds), in ms
fragment_timeout == 500
\* process_packets sweeps when more than 0.5 s have passed, in ms
cleanup_interval == 500
\* queue.Queue(maxsize=1000), queue.Queue(maxsize=30)
PacketQueueMax == 1000
FrameQueueMax == 30
\* RTP sequence numbers are 16 bits wide
SeqMod == 65536

\* None, as returned by process_packet when no NAL is complete.  Every
\* non-None return value starts with the 4-byte start code, so the empty
\* byte string never stands for anything else.
None == <<>>
\* b'\x00\x00\x00\x01'
StartCode == <<0, 0, 0, 1>>
\* "no fragment entry was selected"
NoKey == <<>>

(***************************************************************************)
(* Byte helpers: struct.unpack('!H', ..), struct.pack('!H', ..), slices.   *)
(***************************************************************************)
\* struct.unpack('!H', bytes([b0, b1]))[0]
U16(b0, b1) == b0 * 256 + b1

\* struct.pack('!H', h)
Pack16(h) == <<h \div 256, h % 256>>

\* payload[k:] with k a 0-based Python offset
SliceFrom(payload, k) == SubSeq(payload, k + 1, Len(payload))

\* abs(x)
Abs(x) == IF x < 0 THEN -x ELSE x

\* b''.join(list)
RECURSIVE Join(_)
Join(list) ==
    IF list = <<>> THEN <<>> ELSE Head(list) \o Join(Tail(list))

\* struct.unpack('!I', bytes([b0, b1, b2, b3]))[0]
U32(b0, b1, b2, b3) == ((b0 * 256 + b1) * 256 + b2) * 256 + b3

(***************************************************************************)
(* RTPPacket (the same text in both files).                                *)
(***************************************************************************)

\* parse raises ValueError("Invalid RTP packet size")
ParseFails(data) == Len(data) < 12

\* self.header_size = 12 + (self.cc * 4), plus 4 + ext_length * 4 when the
\* extension bit is set and the 4 bytes of the extension header are there
HeaderSize(data) ==
    LET cc        == data[1] % 16
        extension == (data[1] \div 16) % 2
        start     == 12 + cc * 4
    IN  IF extension = 1 /\ start + 4 <= Len(data)
        THEN start + 4 + U16(data[start + 3], data[start + 4]) * 4
        ELSE start

\* the fields parse sets, for a datagram of at least 12 bytes
parse(data) ==
    [version      |-> (data[1] \div 64) % 4,
     padding      |-> (data[1] \div 32) % 2,
     extension    |-> (data[1] \div 16) % 2,
     cc           |-> data[1] % 16,
     marker       |-> (data[2] \div 128) % 2,
     payload_type |-> data[2] % 128,
     sequence     |-> U16(data[3], data[4]),
     timestamp    |-> U32(data[5], data[6], data[7], data[8]),
     ssrc         |-> U32(data[9], data[10], data[11], data[12]),
     header_size  |-> HeaderSize(data),
     payload      |-> SliceFrom(data, HeaderSize(data))]

(***************************************************************************)
(* H265RTPDepacketizer (h265_receiver.py).                                 *)
(*                                                                         *)
(* self.fragments is a dict; Python dicts iterate in insertion order and   *)
(* min() returns the first minimal element, so the store is modelled as    *)
(* the sequence of its entries in insertion order.  An entry is            *)
(*   [key |-> <<ssrc, timestamp, start_seq>>, data, last_seq, timestamp].  *)
(***************************************************************************)

\* nal_header = struct.unpack('!H', packet.payload[0:2])[0]
NalHeader(payload) == U16(payload[1], payload[2])

\* nal_type = (nal_header >> 9) & 0x3F
NalType(payload) == (NalHeader(payload) \div 512) % 64

\* start_bit = (fu_header >> 7) & 0x01
StartBit(payload) == (payload[3] \div 128) % 2

\* end_bit = (fu_header >> 6) & 0x01
EndBit(payload) == (payload[3] \div 64) % 2

\* fu_type = fu_header & 0x3F
FuType(payload) == payload[3] % 64

\* (a faulty reconstruction that leaves the PayloadHdr as it is)
ReconstructHeader_Unchanged(nal_header, fu_type) == nal_header

\* nal_header = (nal_header & 0x81FF) | (fu_type << 9)
\* 0x81FF keeps bit 15 and bits 0..8; fu_type < 64 fills bits 9..14, which the
\* mask has cleared, so the OR is a sum.
ReconstructHeader(nal_header, fu_type) ==
    (nal_header \div 32768) * 32768 + (nal_header % 512) + fu_type * 512

\* index of the entry stored under key, 0 when there is none
IndexOfKey(frags, key) ==
    IF \E i \in 1..Len(frags) : frags[i].key = key
    THEN CHOOSE i \in 1..Len(frags) : frags[i].key = key
    ELSE 0

\* (a faulty assignment that always adds an entry, though the key is present)
DictSet_AlwaysAppend(frags, key, value) == Append(frags, value)

\* self.fragments[key] = value : a new key is appended to the dict, an
\* existing key keeps its place and gets the new value
DictSet(frags, key, value) ==
    IF IndexOfKey(frags, key) = 0
    THEN Append(frags, value)
    ELSE [frags EXCEPT ![IndexOfKey(frags, key)] = value]

\* (a faulty del that deletes nothing)
DictDel_Keep(frags, i) == frags

\* del self.fragments[key], for the entry at index i
DictDel(frags, i) ==
    SubSeq(frags, 1, i - 1) \o SubSeq(frags, i + 1, Len(frags))

\* the start branch of handle_fu: key = (ssrc, timestamp, sequence)
StartEntry(packet, t) ==
    [key       |-> <<packet.ssrc, packet.timestamp, packet.sequence>>,
     data      |-> Pack16(ReconstructHeader(NalHeader(packet.payload),
                                            FuType(packet.payload)))
                   \o SliceFrom(packet.payload, 3),
     last_seq  |-> packet.sequence,
     timestamp |-> t]

\* (a faulty filter that forgets the ssrc and matches on the timestamp alone)
Candidates_AnySsrc(frags, packet) ==
    {i \in 1..Len(frags) : frags[i].key[2] = packet.timestamp}

\* (a faulty filter that forgets the timestamp and matches on the ssrc alone)
Candidates_AnyTimestamp(frags, packet) ==
    {i \in 1..Len(frags) : frags[i].key[1] = packet.ssrc}

\* candidates = [(k, v) ... if k[0] == packet.ssrc and k[1] == packet.timestamp]
\* (as indices into the store, in dict order)
Candidates(frags, packet) ==
    {i \in 1..Len(frags) : /\ frags[i].key[1] = packet.ssrc
                           /\ frags[i].key[2] = packet.timestamp}

\* the key of min(): abs(packet.sequence - kv[1]['last_seq'] - 1)
Distance(entry, packet) == Abs(packet.sequence - entry.last_seq - 1)

\* min(candidates, key=...) : the first candidate, in dict order, of minimal
\* distance
SelectCandidate(frags, packet) ==
    CHOOSE i \in Candidates(frags, packet) :
        \A j \in Candidates(frags, packet) :
            \/ Distance(frags[i], packet) < Distance(frags[j], packet)
            \/ /\ Distance(frags[i], packet) = Distance(frags[j], packet)
               /\ i <= j

\* state['data'] += payload[3:]; state['last_seq'] = sequence;
\* state['timestamp'] = time.time()
AppendFragment(entry, packet, t) ==
    [entry EXCEPT !.data      = @ \o SliceFrom(packet.payload, 3),
                  !.last_seq  = packet.sequence,
                  !.timestamp = t]

\* handle_fu: the new store, the return value, and the key of the entry the
\* fragment was appended to (NoKey when none was)
handle_fu(frags, packet, t) ==
    IF Len(packet.payload) < 3
    THEN [fragments |-> frags, ret |-> None, key |-> NoKey]
    ELSE IF StartBit(packet.payload) = 1
    THEN [fragments |-> DictSet(frags, StartEntry(packet, t).key,
                                StartEntry(packet, t)),
          ret |-> None, key |-> NoKey]
    ELSE IF Candidates(frags, packet) = {}
    THEN [fragments |-> frags, ret |-> None, key |-> NoKey]
    ELSE LET i     == SelectCandidate(frags, packet)
             state == AppendFragment(frags[i], packet, t)
         IN  IF EndBit(packet.payload) = 1
             THEN [fragments |-> DictDel(frags, i),
                   ret |-> StartCode \o state.data,
                   key |-> frags[i].key]
             ELSE [fragments |-> [frags EXCEPT ![i] = state],
                   ret |-> None,
                   key |-> frags[i].key]

\* the while loop of handle_ap, from a 0-based offset with the NALs found so far
RECURSIVE ap_loop(_, _, _)
ap_loop(payload, offset, nalus) ==
    IF ~(offset < Len(payload)) THEN nalus
    ELSE IF offset + 2 > Len(payload) THEN nalus
    ELSE LET nal_size == U16(payload[offset + 1], payload[offset + 2])
             body     == offset + 2
         IN  IF body + nal_size > Len(payload) THEN nalus
             ELSE ap_loop(payload, body + nal_size,
                          Append(nalus, StartCode
                                 \o SubSeq(payload, body + 1, body + nal_size)))

\* (a faulty return that hands back the first NAL only)
handle_ap_FirstOnly(packet) ==
    LET nalus == ap_loop(packet.payload, 2, <<>>)
    IN  IF nalus # <<>> THEN Head(nalus) ELSE None

\* (a faulty return that hands back nothing unless the loop consumed the
\* whole payload)
handle_ap_AllOrNothing(packet) ==
    LET nalus == ap_loop(packet.payload, 2, <<>>)
    IN  IF nalus # <<>>
           /\ 2 + Len(Join(nalus)) - 2 * Len(nalus) = Len(packet.payload)
        THEN Join(nalus) ELSE None

\* handle_ap: b''.join(nalus) if nalus else None
handle_ap(packet) ==
    LET nalus == ap_loop(packet.payload, 2, <<>>)
    IN  IF nalus # <<>> THEN Join(nalus) ELSE None

\* (a faulty return without the start code)
handle_single_nal_Bare(packet) == packet.payload

\* handle_single_nal
handle_single_nal(packet) == StartCode \o packet.payload

\* process_packet
process_packet(frags, packet, t) ==
    IF Len(packet.payload) < 2
    THEN [fragments |-> frags, ret |-> None, key |-> NoKey]
    ELSE IF NalType(packet.payload) = 49
    THEN handle_fu(frags, packet, t)
    ELSE IF NalType(packet.payload) = 48
    THEN [fragments |-> frags, ret |-> handle_ap(packet), key |-> NoKey]
    ELSE [fragments |-> frags, ret |-> handle_single_nal(packet),
          key |-> NoKey]

\* (a faulty test that also evicts an entry exactly fragment_timeout old)
TimedOut_AtLeast(entry, current_time) ==
    current_time - entry.timestamp >= fragment_timeout

\* current_time - v['timestamp'] > self.fragment_timeout
TimedOut(entry, current_time) ==
    current_time - entry.timestamp > fragment_timeout

\* the entries cleanup_old_fragments does not delete, in dict order
RECURSIVE KeepEntries(_, _)
KeepEntries(frags, current_time) ==
    IF frags = <<>> THEN <<>>
    ELSE IF TimedOut(Head(frags), current_time)
    THEN KeepEntries(Tail(frags), current_time)
    ELSE <<Head(frags)>> \o KeepEntries(Tail(frags), current_time)

\* cleanup_old_fragments
cleanup_old_fragments(frags, current_time) == KeepEntries(frags, current_time)

(***************************************************************************)
(* H265RTPDepacketizer (extract_h265.py).                                  *)
(*                                                                         *)
(* self.fragments maps a timestamp to the bytes gathered so far; it is     *)
(* modelled as a function whose domain is the set of timestamps present.   *)
(* handle_ap and handle_single_nal are the same text in both files.        *)
(***************************************************************************)

\* self.fragments[timestamp] = data
x_set(xfrags, timestamp, data) ==
    [t \in (DOMAIN xfrags) \cup {timestamp} |->
        IF t = timestamp THEN data ELSE xfrags[t]]

\* (a faulty pop that leaves the entry in the store)
x_pop_Keep(xfrags, timestamp) == xfrags

\* self.fragments.pop(timestamp), the store that is left
x_pop(xfrags, timestamp) ==
    [t \in (DOMAIN xfrags) \ {timestamp} |-> xfrags[t]]

\* handle_fu of extract_h265.py: the new store and the return value
x_handle_fu(xfrags, packet) ==
    IF Len(packet.payload) < 3
    THEN [fragments |-> xfrags, ret |-> None]
    ELSE IF StartBit(packet.payload) = 1
    THEN [fragments |->
              x_set(xfrags, packet.timestamp,
                    Pack16(ReconstructHeader(NalHeader(packet.payload),
                                             FuType(packet.payload)))
                    \o SliceFrom(packet.payload, 3)),
          ret |-> None]
    ELSE IF packet.timestamp \in DOMAIN xfrags
    THEN LET data == xfrags[packet.timestamp] \o SliceFrom(packet.payload, 3)
         IN  IF EndBit(packet.payload) = 1
             THEN [fragments |-> x_pop(xfrags, packet.timestamp),
                   ret |-> StartCode \o data]
             ELSE [fragments |-> x_set(xfrags, packet.timestamp, data),
                   ret |-> None]
    ELSE [fragments |-> xfrags, ret |-> None]

\* process_packet of extract_h265.py
x_process_packet(xfrags, packet) ==
    IF Len(packet.payload) < 2
    THEN [fragments |-> xfrags, ret |-> None]
    ELSE IF NalType(packet.payload) = 49
    THEN x_handle_fu(xfrags, packet)
    ELSE IF NalType(packet.payload) = 48
    THEN [fragments |-> xfrags, ret |-> handle_ap(packet)]
    ELSE [fragments |-> xfrags, ret |-> handle_single_nal(packet)]

(***************************************************************************)
(* H265Decoder and H265StreamReceiver (h265_receiver.py).                  *)
(***************************************************************************)

\* H265Decoder.__init__
NewDecoder == [frame_buffer |-> <<>>, sps_received |-> FALSE,
               pps_received |-> FALSE, vps_received |-> FALSE]

\* H265Decoder.decode_nal_unit: the decoder afterwards and the number of
\* frames returned; nframes is the number of frames the codec yields for the
\* buffer when it is asked to decode it
decode_nal_unit(dec, nal_data, marker, nframes) ==
    IF nal_data = <<>> THEN [decoder |-> dec, frames |-> 0]
    ELSE
    LET buffer   == dec.frame_buffer \o nal_data
        nal_type == IF Len(nal_data) > 5 THEN (nal_data[5] \div 2) % 64
                    ELSE -1
        seen     == [dec EXCEPT !.vps_received = @ \/ nal_type = 32,
                                !.sps_received = @ \/ nal_type = 33,
                                !.pps_received = @ \/ nal_type = 34]
    IN  IF marker = 1 /\ buffer # <<>>
        THEN [decoder |-> [seen EXCEPT !.frame_buffer = <<>>],
              frames  |-> nframes]
        ELSE [decoder |-> [seen EXCEPT !.frame_buffer = buffer],
              frames  |-> 0]

\* the stats of a new H265StreamReceiver
NewStats == [packets_received |-> 0, bytes_received |-> 0,
             frames_decoded |-> 0, last_sequence |-> -1, lost_packets |-> 0]

\* (a faulty accounting that counts every forward or backward jump)
LostDelta_NoLimit(last_sequence, sequence) ==
    IF last_sequence = -1 THEN 0
    ELSE (sequence - ((last_sequence + 1) % SeqMod)) % SeqMod

\* receive_packets: what a parsed packet adds to stats['lost_packets']
LostDelta(last_sequence, sequence) ==
    IF last_sequence = -1 THEN 0
    ELSE LET expected == (last_sequence + 1) % SeqMod
             diff     == (sequence - expected) % SeqMod
         IN  IF sequence # expected /\ diff > 0 /\ diff < 100 THEN diff
             ELSE 0

\* process_packets: current_time - self.last_cleanup_time > 0.5
CleanupDue_AtLeast(current_time, last) ==
    current_time - last >= cleanup_interval

CleanupDue(current_time, last) == current_time - last > cleanup_interval

(***************************************************************************)
(* The environment: RTP senders and a lossy network.                       *)
(*                                                                         *)
(* Each sender (one per SSRC) numbers its packets consecutively modulo     *)
(* 2^16 from a starting value of its choice.  It sends single NAL units,   *)
(* aggregation packets, malformed short payloads, and NAL units fragmented *)
(* per RFC 7798: one start fragment, any number of middle fragments and    *)
(* one end fragment, consecutively and under one timestamp.  The network   *)
(* delivers a packet to both depacketizers or loses it.                    *)
(***************************************************************************)
SSRCs == {1, 2}

Timestamps == {1000, 2000}

\* first sequence number of a sender: far from, and just before, the 16-bit wrap
InitSeqs == {100, 65533}

\* the clock advances in these steps
TickSteps == {250, 500}

\* header of the NAL units the senders fragment: 26 01, type 19 (IDR_W_RADL)
OrigHdr == <<38, 1>>

\* body of the fragment that sender s sends with sequence number k: the
\* senders use disjoint bytes, and no two fragments of a behaviour have the
\* same body
Body(s, k) == <<176 + 16 * (s - 1) + (k % 16)>>

\* RFC 7798 4.4.3: PayloadHdr of an FU = the NAL header with type 49,
\* FU header = S | E | type of the fragmented NAL
FuPayload(nalhdr, S, E, body) ==
    << (nalhdr[1] \div 128) * 128 + 49 * 2 + (nalhdr[1] % 2),
       nalhdr[2],
       S * 128 + E * 64 + ((nalhdr[1] \div 2) % 64) >> \o body

\* a long NAL unit: 02 01 (type 1, TRAIL_R) and BigLen - 2 further bytes
BigNal == [i \in 1..BigLen |-> IF i = 1 THEN 2 ELSE IF i = 2 THEN 1
                                ELSE i % 256]

\* NAL units that are aggregated: 42 01 CC (SPS), 44 01 (PPS), the long one
ApNals == {<<66, 1, 204>>, <<68, 1>>, BigNal}

\* lists of at most MaxApNals of them
NalLists == UNION {[1..n -> ApNals] : n \in 0..MaxApNals}

\* RFC 7798 4.4.2: AP header 60 01, then (16-bit size, NAL) records
RECURSIVE ApRecords(_)
ApRecords(nals) ==
    IF nals = <<>> THEN <<>>
    ELSE <<Len(Head(nals)) \div 256, Len(Head(nals)) % 256>>
         \o Head(nals) \o ApRecords(Tail(nals))

PackAP(nals) == <<96, 1>> \o ApRecords(nals)

\* single NAL units: 40 01 AA BB (a VPS), 5E 01 05 (type 47), 64 01 (type
\* 50, header only)
SinglePayloads == {<<64, 1, 170, 187>>, <<94, 1, 5>>, <<100, 1>>}

\* what a sender sends whole: well-formed APs, single NAL units, a 1-byte
\* payload, an empty payload, an FU without FU header
WholePayloads ==
    {PackAP(nals) : nals \in NalLists}
    \cup SinglePayloads \cup {<<64>>, <<>>, <<98, 1>>}

\* short NAL units and the lists of at most MaxApNals of them
SmallNals == {<<66, 1, 204>>, <<68, 1>>}

SmallLists == UNION {[1..n -> SmallNals] : n \in 0..MaxApNals}

\* the last record of a truncated AP: one byte of a size field; a size of 1
\* and no byte behind it; a size of 5 and two bytes behind it
TruncatedRecords == {<<0>>, <<0, 1>>, <<0, 5, 66, 1>>}

\* APs cut inside a record: complete records, then a truncated one
TruncatedPayloads ==
    {PackAP(nals) \o t : nals \in SmallLists, t \in TruncatedRecords}

\* what a sender starts a fragmented NAL with, and the fragment with both S
\* and E set
FuIdlePayloads(s, k) == {FuPayload(OrigHdr, 1, e, Body(s, k)) : e \in {0, 1}}

\* what a sender sends inside a fragmented NAL: a middle or the end fragment
FragPayloads(s, k) == {FuPayload(OrigHdr, 0, e, Body(s, k)) : e \in {0, 1}}

IsFU(payload) == Len(payload) >= 3 /\ NalType(payload) = 49

IsStart(payload) ==
    IsFU(payload) /\ StartBit(payload) = 1 /\ EndBit(payload) = 0

IsMiddle(payload) ==
    IsFU(payload) /\ StartBit(payload) = 0 /\ EndBit(payload) = 0

IsEnd(payload) ==
    IsFU(payload) /\ StartBit(payload) = 0 /\ EndBit(payload) = 1

NoPkt == [ssrc |-> 0, timestamp |-> 0, sequence |-> 0, marker |-> 0,
          payload |-> <<>>]

\* What a sender remembers of the NAL it is fragmenting (or has just
\* finished): its timestamp, the sequence number of its start fragment, its
\* bytes (header and every fragment body, lost or not), whether the start
\* fragment was delivered, whether a middle fragment was lost, whether the
\* network delivered a second copy of the start fragment, and the number of
\* fragments sent.  conf: the sender has never set S and E in one fragment
\* (RFC 7798: they MUST NOT both be set).  clean: every packet of the sender
\* so far was delivered, and delivered once.
IdleTrack == [phase |-> "idle", ts |-> 0, sseq |-> 0, orig |-> <<>>,
              sdel |-> FALSE, mlost |-> FALSE, dup |-> FALSE, nfrag |-> 0,
              conf |-> TRUE, clean |-> TRUE]

\* the header of the NAL that the sender of an FU packet is fragmenting
\* (FuPayload read backwards)
SentHdr(payload) ==
    << (payload[1] \div 128) * 128 + (payload[3] % 64) * 2 + (payload[1] % 2),
       payload[2] >>

TrackNext(tr, pkt, delivered) ==
    IF IsStart(pkt.payload)
    THEN [phase |-> "frag", ts |-> pkt.timestamp, sseq |-> pkt.sequence,
          orig |-> SentHdr(pkt.payload) \o SliceFrom(pkt.payload, 3),
          sdel |-> delivered, mlost |-> FALSE, dup |-> FALSE, nfrag |-> 1,
          conf |-> tr.conf, clean |-> tr.clean /\ delivered]
    ELSE IF IsMiddle(pkt.payload) /\ tr.phase = "frag"
    THEN [tr EXCEPT !.orig = @ \o SliceFrom(pkt.payload, 3),
                    !.mlost = @ \/ ~delivered,
                    !.nfrag = @ + 1,
                    !.clean = @ /\ delivered]
    ELSE IF IsEnd(pkt.payload) /\ tr.phase = "frag"
    THEN [tr EXCEPT !.phase = "idle",
                    !.orig = @ \o SliceFrom(pkt.payload, 3),
                    !.nfrag = @ + 1,
                    !.clean = @ /\ delivered]
    ELSE [IdleTrack EXCEPT !.conf = tr.conf /\ ~IsFU(pkt.payload),
                           !.clean = tr.clean /\ delivered]

(***************************************************************************)
(* State.                                                                  *)
(***************************************************************************)
VARIABLES
    fragments,      \* H265RTPDepacketizer.fragments of h265_receiver.py
    xfragments,     \* H265RTPDepacketizer.fragments of extract_h265.py
    now,            \* time.time(), in ms
    seqno,          \* per sender: sequence number of its next packet
    track,          \* per sender: the NAL it is fragmenting
    npkts,          \* packets sent so far
    op,             \* the last step: "init", "send", "lose", "tick", "sweep"
    lastPkt,        \* the packet of the last "send"
    prevFragments,  \* fragments before the last "send" or "sweep"
    prevX,          \* xfragments before the last "send"
    out,            \* what process_packet of h265_receiver.py returned
    xout,           \* what process_packet of extract_h265.py returned
    lastKey,        \* key of the entry the last fragment was appended to
    emitted,        \* the NALs h265_receiver.py has returned, in order
                    \* (recorded in the two-sender scenario only)
    running,            \* H265StreamReceiver.running
    packet_queue,       \* H265StreamReceiver.packet_queue
    frame_queue,        \* number of frames in H265StreamReceiver.frame_queue
    decoder,            \* H265StreamReceiver.decoder
    stats,              \* H265StreamReceiver.stats
    last_cleanup_time,  \* H265StreamReceiver.last_cleanup_time, in ms
    prevCleanup,        \* last_cleanup_time before the last "proc"
    procNow,            \* a packet was processed at this clock value
    busy,               \* since the last sweep a packet was processed at
                        \* every clock value
    prevBusy,           \* busy before the last "proc"
    lastData,           \* the datagram of the last "recv" or "extract"
    lastView,           \* the RTPPacket made of it, NoView if parse raised
    arrivals,           \* for each packet in packet_queue: the number of
                        \* datagrams received when it was parsed
    handed,             \* the NALs process_packets got from the
                        \* depacketizer, in order, each with the number of
                        \* the datagram that completed it
    nal_units,          \* extract_h265_stream: nal_units
    packet_count,       \* extract_h265_stream: packet_count
    rtp_packet_count,   \* extract_h265_stream: rtp_packet_count
    unit_by,            \* for each element of nal_units: the packet_count
                        \* of the datagram that completed it
    pending,            \* receive_packets between full() and put(): the
                        \* packet it is about to put, None elsewhere
    dropped,            \* sequence numbers of the packets receive_packets
                        \* did not put because full() was true
    rpc,                \* where the receiver thread is: "loop" (at the
                        \* test of running), "recv" (in recvfrom), "put"
                        \* (before packet_queue.put), "done"
    ppc,                \* where the processor thread is: "loop", "get" (in
                        \* packet_queue.get), "done"
    sock                \* H265StreamReceiver.socket: "open" or "closed"

\* the state of the online receiver
rvars == <<running, packet_queue, frame_queue, decoder, stats,
           last_cleanup_time, prevCleanup, procNow, busy, prevBusy>>

\* what is remembered of the datagrams of the online receiver
hvars == <<lastData, lastView, arrivals, handed>>

\* the state of the loop of extract_h265_stream
xvars == <<nal_units, packet_count, rtp_packet_count, unit_by>>

\* the receiver thread between its two calls on packet_queue
bvars == <<pending, dropped>>

\* where the threads are
pvars == <<rpc, ppc, sock>>

qvars == <<bvars, pvars>>

vars == <<fragments, xfragments, now, seqno, track, npkts, op, lastPkt,
          prevFragments, prevX, out, xout, lastKey, emitted, rvars, hvars,
          xvars, qvars>>

\* no RTPPacket
NoView == [error |-> "Invalid RTP packet size"]

\* H265StreamReceiver.__init__ at time 0, then start() up to the threads
InitReceiver ==
    /\ running = TRUE
    /\ packet_queue = <<>>
    /\ frame_queue = 0
    /\ decoder = NewDecoder
    /\ stats = NewStats
    /\ last_cleanup_time = 0
    /\ prevCleanup = 0
    /\ procNow = FALSE
    /\ busy = FALSE
    /\ prevBusy = FALSE
    /\ lastData = <<>>
    /\ lastView = NoView
    /\ arrivals = <<>>
    /\ handed = <<>>
    /\ nal_units = <<>>
    /\ packet_count = 0
    /\ rtp_packet_count = 0
    /\ unit_by = <<>>
    /\ pending = None
    /\ dropped = {}
    /\ rpc = "loop"
    /\ ppc = "loop"
    /\ sock = "open"

Init ==
    /\ fragments = <<>>
    /\ xfragments = <<>>
    /\ now = 0
    /\ seqno \in [SSRCs -> InitSeqs]
    /\ track = [s \in SSRCs |-> IdleTrack]
    /\ npkts = 0
    /\ op = "init"
    /\ lastPkt = NoPkt
    /\ prevFragments = <<>>
    /\ prevX = <<>>
    /\ out = None
    /\ xout = None
    /\ lastKey = NoKey
    /\ emitted = <<>>
    /\ InitReceiver

\* the packets sender s may send next
NextPackets(s) ==
    IF track[s].phase = "frag"
    THEN {[ssrc |-> s, timestamp |-> track[s].ts, sequence |-> seqno[s],
           marker |-> 0, payload |-> p] :
              p \in FragPayloads(s, seqno[s])}
    ELSE {[ssrc |-> s, timestamp |-> ts, sequence |-> seqno[s],
           marker |-> 0, payload |-> p] :
              ts \in Timestamps, p \in FuIdlePayloads(s, seqno[s])}

\* the sender's side of sending packet pkt
Sent(pkt, delivered) ==
    /\ npkts' = npkts + 1
    /\ seqno' = [seqno EXCEPT ![pkt.ssrc] = (@ + 1) % SeqMod]
    /\ track' = [track EXCEPT ![pkt.ssrc] = TrackNext(@, pkt, delivered)]

\* depacketizer.process_packet(pkt) in both programs
Process(pkt) ==
    /\ fragments' = process_packet(fragments, pkt, now).fragments
    /\ out' = process_packet(fragments, pkt, now).ret
    /\ lastKey' = process_packet(fragments, pkt, now).key
    /\ xfragments' = x_process_packet(xfragments, pkt).fragments
    /\ xout' = x_process_packet(xfragments, pkt).ret
    /\ prevFragments' = fragments
    /\ prevX' = xfragments
    /\ lastPkt' = pkt
    /\ op' = "send"

\* A packet of sender s arrives.
Deliver(s) ==
    \E pkt \in NextPackets(s) :
        /\ npkts < MaxPkts
        /\ Sent(pkt, TRUE)
        /\ Process(pkt)
        /\ UNCHANGED <<now, emitted, rvars, hvars, xvars, qvars>>

\* A packet is lost on the way.
Lose(s) ==
    \E pkt \in NextPackets(s) :
        /\ npkts < MaxPkts
        /\ Sent(pkt, FALSE)
        /\ op' = "lose"
        /\ lastPkt' = NoPkt
        /\ prevFragments' = <<>>
        /\ prevX' = <<>>
        /\ out' = None
        /\ xout' = None
        /\ lastKey' = NoKey
        /\ UNCHANGED <<fragments, xfragments, now, emitted, rvars, hvars, xvars, qvars>>

\* The network delivers a second copy of the start fragment of the NAL that
\* sender s is fragmenting (UDP may duplicate and reorder datagrams).
StartPacket(s) ==
    [ssrc |-> s, timestamp |-> track[s].ts, sequence |-> track[s].sseq,
     marker |-> 0,
     payload |-> FuPayload(OrigHdr, 1, 0, Body(s, track[s].sseq))]

Redeliver(s) ==
    /\ track[s].phase = "frag"
    /\ track[s].sdel
    /\ npkts < MaxPkts
    /\ npkts' = npkts + 1
    /\ track' = [track EXCEPT ![s].dup = TRUE, ![s].clean = FALSE]
    /\ Process(StartPacket(s))
    /\ UNCHANGED <<now, seqno, emitted, rvars, hvars, xvars, qvars>>

\* Time passes.
Tick(d) ==
    /\ now + d <= MaxTime
    /\ now' = now + d
    /\ op' = "tick"
    /\ lastPkt' = NoPkt
    /\ prevFragments' = <<>>
    /\ prevX' = <<>>
    /\ out' = None
    /\ xout' = None
    /\ lastKey' = NoKey
    /\ UNCHANGED <<fragments, xfragments, seqno, track, npkts, emitted, rvars, hvars, xvars, qvars>>

\* depacketizer.cleanup_old_fragments()
Sweep ==
    /\ op # "sweep"
    /\ fragments' = cleanup_old_fragments(fragments, now)
    /\ prevFragments' = fragments
    /\ op' = "sweep"
    /\ lastPkt' = NoPkt
    /\ prevX' = <<>>
    /\ out' = None
    /\ xout' = None
    /\ lastKey' = NoKey
    /\ UNCHANGED <<xfragments, now, seqno, track, npkts, emitted, rvars, hvars, xvars, qvars>>

Next ==
    \/ \E s \in SSRCs : Deliver(s)
    \/ \E s \in SSRCs : Lose(s)
    \/ \E s \in SSRCs : Redeliver(s)

\* The depacketizers fed by two senders over a lossy network, with no sweep.
Spec == Init /\ [][Next]_vars

NextSweep ==
    \/ Deliver(1)
    \/ Lose(1)
    \/ \E d \in TickSteps : Tick(d)
    \/ Sweep

\* One sender, the clock, and sweeps of the fragment store at any time.
SpecSweep == Init /\ [][NextSweep]_vars

\* the packets a sender may send when it sends whole packets and start
\* fragments only
WholePackets(s) ==
    {[ssrc |-> s, timestamp |-> ts, sequence |-> seqno[s], marker |-> 0,
      payload |-> p] :
        ts \in Timestamps,
        p \in WholePayloads \cup {FuPayload(OrigHdr, 1, 0, Body(s, seqno[s]))}}

\* A whole packet or a start fragment of sender s arrives.
DeliverWhole(s) ==
    \E pkt \in WholePackets(s) :
        /\ npkts < MaxWhole
        /\ Sent(pkt, TRUE)
        /\ Process(pkt)
        /\ UNCHANGED <<now, emitted, rvars, hvars, xvars, qvars>>

\* A truncated aggregation packet of sender s arrives.
DeliverTruncated(s) ==
    \E ts \in Timestamps, p \in TruncatedPayloads :
        /\ npkts < MaxWhole
        /\ Sent([ssrc |-> s, timestamp |-> ts, sequence |-> seqno[s],
                 marker |-> 0, payload |-> p], TRUE)
        /\ Process([ssrc |-> s, timestamp |-> ts, sequence |-> seqno[s],
                    marker |-> 0, payload |-> p])
        /\ UNCHANGED <<now, emitted, rvars, hvars, xvars, qvars>>

NextWhole ==
    \/ DeliverWhole(1)
    \/ DeliverTruncated(1)

\* One sender of aggregation packets (well-formed and truncated), single
\* NAL units, malformed short payloads and start fragments.
SpecWhole == Init /\ [][NextWhole]_vars

(***************************************************************************)
(* Scenario S6: two senders fragment one NAL each under the same RTP       *)
(* timestamp; nothing is lost, and the network interleaves the two packet  *)
(* sequences in any way that keeps each sender's packets in order.         *)
(***************************************************************************)
\* first sequence numbers: equal or different, with and without the 16-bit
\* wrap inside the NAL
InitSeqsTwo == {100, 65535}

InitTwo ==
    /\ fragments = <<>>
    /\ xfragments = <<>>
    /\ now = 0
    /\ seqno \in [SSRCs -> InitSeqsTwo]
    /\ track = [s \in SSRCs |-> IdleTrack]
    /\ npkts = 0
    /\ op = "init"
    /\ lastPkt = NoPkt
    /\ prevFragments = <<>>
    /\ prevX = <<>>
    /\ out = None
    /\ xout = None
    /\ lastKey = NoKey
    /\ emitted = <<>>
    /\ InitReceiver

\* sender s has sent the end fragment of its NAL
Done(s) == track[s].phase = "idle" /\ track[s].nfrag >= 2

\* the next packet of the NAL of sender s: the start fragment, then middle
\* fragments (while the NAL has room) or the end fragment; both senders use
\* the timestamp 1000
NalPackets(s) ==
    IF Done(s) THEN {}
    ELSE IF track[s].phase = "idle"
    THEN {[ssrc |-> s, timestamp |-> 1000, sequence |-> seqno[s],
           marker |-> 0,
           payload |-> FuPayload(OrigHdr, 1, 0, Body(s, seqno[s]))]}
    ELSE {[ssrc |-> s, timestamp |-> 1000, sequence |-> seqno[s],
           marker |-> 0,
           payload |-> FuPayload(OrigHdr, 0, e, Body(s, seqno[s]))] :
              e \in {x \in {0, 1} : x = 1 \/ track[s].nfrag + 1 < MaxFrags}}

\* The next packet of the NAL of sender s arrives.
DeliverNal(s) ==
    \E pkt \in NalPackets(s) :
        /\ Sent(pkt, TRUE)
        /\ Process(pkt)
        /\ emitted' = IF process_packet(fragments, pkt, now).ret # None
                      THEN Append(emitted,
                                  process_packet(fragments, pkt, now).ret)
                      ELSE emitted
        /\ UNCHANGED <<now, rvars, hvars, xvars, qvars>>

NextTwo == \E s \in SSRCs : DeliverNal(s)

SpecTwo == InitTwo /\ [][NextTwo]_vars

(***************************************************************************)
(* The online receiver: the receiver thread parses datagrams into          *)
(* packet_queue, the processor thread sweeps, depacketizes and decodes,    *)
(* the main thread shows frames and quits.  One sender; the clock moves    *)
(* between the steps of the threads.                                       *)
(***************************************************************************)
\* struct.pack('!I', w)
Pack32(w) == <<(w \div 16777216) % 256, (w \div 65536) % 256,
               (w \div 256) % 256, w % 256>>

\* RFC 3550 5.1: version 2, no padding, no extension, no CSRC, payload
\* type 96
Datagram(pkt) ==
    <<128, pkt.marker * 128 + 96>> \o Pack16(pkt.sequence)
    \o Pack32(pkt.timestamp) \o Pack32(pkt.ssrc) \o pkt.payload

\* what the sender sends to the receiver: fragments of a NAL, or a single
\* NAL unit (40 01 AA BB); the last packet of an access unit has the marker
\* bit
StreamPackets(s) ==
    {pkt \in
        {[ssrc |-> s, timestamp |-> 1000, sequence |-> seqno[s],
          marker |-> m, payload |-> p] :
            m \in {0, 1},
            p \in IF track[s].phase = "frag"
                  THEN FragPayloads(s, seqno[s])
                  ELSE {FuPayload(OrigHdr, 1, 0, Body(s, seqno[s])),
                        <<64, 1, 170, 187>>}} :
        pkt.marker = 1 => ~IsStart(pkt.payload) /\ ~IsMiddle(pkt.payload)}

\* no depacketizer call in this step
NoCall(o) ==
    /\ op' = o
    /\ lastPkt' = NoPkt
    /\ prevFragments' = <<>>
    /\ prevX' = <<>>
    /\ out' = None
    /\ xout' = None
    /\ lastKey' = NoKey

\* (a faulty queue that puts the item in front)
put_Front(q, item) == <<item>> \o q

\* queue.Queue.put
put(q, item) == Append(q, item)

\* (a faulty test that never finds the queue full)
full_Never(q) == FALSE

\* queue.Queue.full of a queue made with maxsize=1000
full(q) == Len(q) >= PacketQueueMax

\* no datagram in this step
NoData ==
    /\ lastData' = <<>>
    /\ lastView' = NoView

\* (a faulty iteration that queues an empty packet for a datagram that
\* does not parse)
Arrive_QueueUnparsed(data) ==
    LET counted == [stats EXCEPT !.packets_received = @ + 1,
                                 !.bytes_received = @ + Len(data)]
        packet  == IF ParseFails(data) THEN NoPkt ELSE parse(data)
    IN  /\ lastView' = IF ParseFails(data) THEN NoView ELSE packet
        /\ arrivals' = put(arrivals, counted.packets_received)
        /\ packet_queue' = put(packet_queue, packet)
        /\ stats' = [counted EXCEPT !.last_sequence = packet.sequence]

\* receive_packets, one iteration in which recvfrom returns data
Arrive(data) ==
    LET counted == [stats EXCEPT !.packets_received = @ + 1,
                                 !.bytes_received = @ + Len(data)]
    IN  IF ParseFails(data)
        THEN /\ stats' = counted
             /\ lastView' = NoView
             /\ UNCHANGED <<packet_queue, arrivals>>
        ELSE LET packet == parse(data)
             IN  /\ lastView' = packet
                 /\ arrivals' =
                        IF ~full(packet_queue)
                        THEN put(arrivals, counted.packets_received)
                        ELSE arrivals
                 /\ stats' = [counted EXCEPT
                        !.lost_packets =
                            @ + LostDelta(stats.last_sequence,
                                          packet.sequence),
                        !.last_sequence = packet.sequence]
                 /\ packet_queue' =
                        IF ~full(packet_queue)
                        THEN put(packet_queue, packet)
                        ELSE packet_queue

\* A datagram of sender s reaches the socket.
Recv(s) ==
    \E pkt \in StreamPackets(s) :
        /\ running
        /\ npkts < MaxRecv
        /\ Sent(pkt, TRUE)
        /\ Arrive(Datagram(pkt))
        /\ lastData' = Datagram(pkt)
        /\ NoCall("recv")
        /\ UNCHANGED <<fragments, xfragments, now, emitted, running,
                       frame_queue, decoder, last_cleanup_time, prevCleanup,
                       procNow, busy, prevBusy, handed, xvars, qvars>>

\* process_packets from the return of get with a packet to the end of the
\* iteration; the codec yields one of 0..MaxFrames frames if it is asked to
\* decode
ProcIter ==
    \E nframes \in 0..MaxFrames :
        LET packet == Head(packet_queue)
            due    == CleanupDue(now, last_cleanup_time)
            kept   == IF due THEN cleanup_old_fragments(fragments, now)
                      ELSE fragments
            r      == process_packet(kept, packet, now)
            d      == decode_nal_unit(decoder, r.ret, packet.marker, nframes)
        IN  /\ packet_queue # <<>>
            /\ packet_queue' = Tail(packet_queue)
            /\ last_cleanup_time' = IF due THEN now ELSE last_cleanup_time
            /\ fragments' = r.fragments
            /\ decoder' = d.decoder
            /\ stats' = [stats EXCEPT !.frames_decoded = @ + d.frames]
            /\ frame_queue' = IF frame_queue + d.frames <= FrameQueueMax
                              THEN frame_queue + d.frames
                              ELSE FrameQueueMax
            /\ prevCleanup' = last_cleanup_time
            /\ procNow' = TRUE
            /\ busy' = (due \/ busy)
            /\ prevBusy' = busy
            /\ op' = "proc"
            /\ lastPkt' = packet
            /\ prevFragments' = fragments
            /\ out' = r.ret
            /\ lastKey' = r.key
            /\ prevX' = <<>>
            /\ xout' = None
            /\ arrivals' = Tail(arrivals)
            /\ handed' = IF r.ret # None
                         THEN Append(handed, <<Head(arrivals), r.ret>>)
                         ELSE handed
            /\ NoData
            /\ UNCHANGED <<xfragments, now, seqno, track, npkts, emitted,
                           running, xvars, bvars>>

\* process_packets, one iteration in which get returns a packet
Proc ==
    /\ running
    /\ ProcIter
    /\ UNCHANGED pvars

\* display_stream, one iteration that finds a frame in frame_queue
Show ==
    /\ running
    /\ frame_queue > 0
    /\ frame_queue' = frame_queue - 1
    /\ NoCall("show")
    /\ NoData
    /\ UNCHANGED <<arrivals, handed, xvars, qvars>>
    /\ UNCHANGED <<fragments, xfragments, now, seqno, track, npkts, emitted,
                   running, packet_queue, decoder, stats, last_cleanup_time,
                   prevCleanup, procNow, busy, prevBusy>>

\* display_stream: the key q
Quit ==
    /\ running
    /\ running' = FALSE
    /\ NoCall("quit")
    /\ NoData
    /\ UNCHANGED <<arrivals, handed, xvars, qvars>>
    /\ UNCHANGED <<fragments, xfragments, now, seqno, track, npkts, emitted,
                   packet_queue, frame_queue, decoder, stats,
                   last_cleanup_time, prevCleanup, procNow, busy,
                   prevBusy>>

\* Time passes while the receiver runs.
Elapse(d) ==
    /\ running
    /\ now + d <= MaxClock
    /\ now' = now + d
    /\ procNow' = FALSE
    /\ busy' = (busy /\ procNow)
    /\ NoCall("tick")
    /\ NoData
    /\ UNCHANGED <<arrivals, handed, xvars, qvars>>
    /\ UNCHANGED <<fragments, xfragments, seqno, track, npkts, emitted,
                   running, packet_queue, frame_queue, decoder, stats,
                   last_cleanup_time, prevCleanup, prevBusy>>

\* the second sender is silent
InitRecv ==
    /\ Init
    /\ seqno[2] = 100

NextRecv ==
    \/ Recv(1)
    \/ Proc
    \/ Show
    \/ Quit
    \/ \E d \in TickSteps : Elapse(d)

\* The online receiver with one sender.
SpecRecv == InitRecv /\ [][NextRecv]_vars

(***************************************************************************)
(* The two threads at packet_queue, step by step: the receiver thread      *)
(* tests full() and calls put() in two steps, and the processor thread may *)
(* run between them.  The queue holds 1000 packets, so the scenario starts *)
(* where the receiver has taken Backlog single NAL units from the socket   *)
(* while the processor thread has not run yet, and the processor stays     *)
(* within MaxLag packets of a full queue.                                  *)
(***************************************************************************)
Backlog == PacketQueueMax - 1

\* the i-th packet of the backlog
BacklogPacket(i) ==
    [ssrc |-> 1, timestamp |-> 1000, sequence |-> 100 + i - 1, marker |-> 0,
     payload |-> <<64, 1, 170, 187>>]

InitQueue ==
    /\ fragments = <<>>
    /\ xfragments = <<>>
    /\ now = 0
    /\ seqno = [s \in SSRCs |-> IF s = 1 THEN 100 + Backlog ELSE 100]
    /\ track = [s \in SSRCs |-> IdleTrack]
    /\ npkts = Backlog
    /\ op = "put"
    /\ lastPkt = NoPkt
    /\ prevFragments = <<>>
    /\ prevX = <<>>
    /\ out = None
    /\ xout = None
    /\ lastKey = NoKey
    /\ emitted = <<>>
    /\ running = TRUE
    /\ packet_queue = [i \in 1..Backlog |-> parse(Datagram(BacklogPacket(i)))]
    /\ frame_queue = 0
    /\ decoder = NewDecoder
    /\ stats = [NewStats EXCEPT !.packets_received = Backlog,
                                !.bytes_received = 16 * Backlog,
                                !.last_sequence = 100 + Backlog - 1]
    /\ last_cleanup_time = 0
    /\ prevCleanup = 0
    /\ procNow = FALSE
    /\ busy = FALSE
    /\ prevBusy = FALSE
    /\ lastData = Datagram(BacklogPacket(Backlog))
    /\ lastView = parse(Datagram(BacklogPacket(Backlog)))
    /\ arrivals = [i \in 1..Backlog |-> i]
    /\ handed = <<>>
    /\ nal_units = <<>>
    /\ packet_count = 0
    /\ rtp_packet_count = 0
    /\ unit_by = <<>>
    /\ pending = None
    /\ dropped = {}
    /\ rpc = "loop"
    /\ ppc = "loop"
    /\ sock = "open"

\* single NAL units, the last of an access unit with the marker bit
QueuePackets(s) ==
    {[ssrc |-> s, timestamp |-> 1000, sequence |-> seqno[s], marker |-> m,
      payload |-> <<64, 1, 170, 187>>] : m \in {0, 1}}

\* receive_packets from the return of recvfrom with the datagram of pkt to
\* the test of full()
RecvIter(pkt) ==
    LET data    == Datagram(pkt)
        counted == [stats EXCEPT !.packets_received = @ + 1,
                                 !.bytes_received = @ + Len(data)]
    IN  /\ Sent(pkt, TRUE)
        /\ lastData' = data
        /\ IF ParseFails(data)
           THEN /\ stats' = counted
                /\ lastView' = NoView
                /\ UNCHANGED <<pending, dropped>>
           ELSE LET packet == parse(data)
                IN  /\ lastView' = packet
                    /\ stats' = [counted EXCEPT
                           !.lost_packets =
                               @ + LostDelta(stats.last_sequence,
                                             packet.sequence),
                           !.last_sequence = packet.sequence]
                    /\ pending' = IF full(packet_queue) THEN None
                                  ELSE packet
                    /\ dropped' = IF full(packet_queue)
                                  THEN dropped \cup {packet.sequence}
                                  ELSE dropped
        /\ NoCall("test")
        /\ UNCHANGED <<fragments, xfragments, now, emitted, running,
                       packet_queue, frame_queue, decoder,
                       last_cleanup_time, prevCleanup, procNow, busy,
                       prevBusy, arrivals, handed, xvars>>

\* receive_packets, one iteration from recvfrom to the test of full()
RecvTest(s) ==
    \E pkt \in QueuePackets(s) :
        /\ running
        /\ pending = None
        /\ npkts < Backlog + MaxOver
        /\ RecvIter(pkt)
        /\ UNCHANGED pvars

\* receive_packets: packet_queue.put(packet), which waits while the queue is
\* full
PutIter ==
    /\ pending # None
    /\ ~full(packet_queue)
    /\ packet_queue' = put(packet_queue, pending)
    /\ arrivals' = put(arrivals, stats.packets_received)
    /\ pending' = None
    /\ NoCall("put")
    /\ UNCHANGED <<fragments, xfragments, now, seqno, track, npkts, emitted,
                   running, frame_queue, decoder, stats, last_cleanup_time,
                   prevCleanup, procNow, busy, prevBusy, lastData, lastView,
                   handed, dropped, xvars>>

RecvPut ==
    /\ PutIter
    /\ UNCHANGED pvars

\* process_packets, one iteration, of a processor thread that is slow
ProcSlow ==
    /\ Len(packet_queue) > PacketQueueMax - MaxLag
    /\ Proc

NextQueue ==
    \/ RecvTest(1)
    \/ RecvPut
    \/ ProcSlow

\* The receiver thread and the processor thread at a queue that is nearly
\* full.
SpecQueue == InitQueue /\ [][NextQueue]_vars

(***************************************************************************)
(* The three threads of the online receiver, each with its position: the   *)
(* receiver thread and the processor thread test running at the top of     *)
(* their loops, wait in recvfrom and in get, which time out after 0.1 s,   *)
(* and the main thread shows frames, takes the quit key and closes the     *)
(* socket.                                                                 *)
(***************************************************************************)

\* a step that only moves a thread
Move(o) ==
    /\ NoCall(o)
    /\ NoData
    /\ UNCHANGED <<fragments, xfragments, now, seqno, track, npkts, emitted,
                   rvars, arrivals, handed, xvars, bvars>>

\* receive_packets: while self.running
RLoop ==
    /\ rpc = "loop"
    /\ rpc' = IF running THEN "recv" ELSE "done"
    /\ Move("rloop")
    /\ UNCHANGED <<ppc, sock>>

\* receive_packets: recvfrom raises socket.timeout after 0.1 s, continue
RTimeout ==
    /\ rpc = "recv"
    /\ sock = "open"
    /\ rpc' = "loop"
    /\ Move("rtimeout")
    /\ UNCHANGED <<ppc, sock>>

\* receive_packets: recvfrom raises on the closed socket; the handler prints
\* nothing when running is False
RClosed ==
    /\ rpc = "recv"
    /\ sock = "closed"
    /\ rpc' = "loop"
    /\ Move("rclosed")
    /\ UNCHANGED <<ppc, sock>>

\* receive_packets: recvfrom returns a datagram of sender s
RData(s) ==
    \E pkt \in StreamPackets(s) :
        /\ rpc = "recv"
        /\ sock = "open"
        /\ npkts < MaxStop
        /\ RecvIter(pkt)
        /\ rpc' = IF pending' = None THEN "loop" ELSE "put"
        /\ UNCHANGED <<ppc, sock>>

\* receive_packets: packet_queue.put(packet)
RPut ==
    /\ rpc = "put"
    /\ PutIter
    /\ rpc' = "loop"
    /\ UNCHANGED <<ppc, sock>>

\* process_packets: while self.running
PLoop ==
    /\ ppc = "loop"
    /\ ppc' = IF running THEN "get" ELSE "done"
    /\ Move("ploop")
    /\ UNCHANGED <<rpc, sock>>

\* (a get without a timeout)
PEmpty_Waits == FALSE

\* process_packets: get raises queue.Empty after 0.1 s, continue
PEmpty ==
    /\ ppc = "get"
    /\ packet_queue = <<>>
    /\ ppc' = "loop"
    /\ Move("pempty")
    /\ UNCHANGED <<rpc, sock>>

\* process_packets: get returns a packet
PGet ==
    /\ ppc = "get"
    /\ ProcIter
    /\ ppc' = "loop"
    /\ UNCHANGED <<rpc, sock>>

\* display_stream after its loop: self.socket.close()
Close ==
    /\ ~running
    /\ sock = "open"
    /\ sock' = "closed"
    /\ Move("close")
    /\ UNCHANGED <<rpc, ppc>>

\* the steps the receiver thread takes by itself
ReceiverThread == RLoop \/ RTimeout \/ RClosed \/ RPut

\* the steps the processor thread takes by itself
ProcessorThread == PLoop \/ PEmpty \/ PGet

NextStop ==
    \/ RLoop
    \/ RTimeout
    \/ RClosed
    \/ RData(1)
    \/ RPut
    \/ PLoop
    \/ PEmpty
    \/ PGet
    \/ Show
    \/ Quit
    \/ Close

\* The online receiver until it is quit; the two threads are scheduled
\* fairly.
SpecStop ==
    /\ InitRecv
    /\ [][NextStop]_vars
    /\ WF_vars(ReceiverThread)
    /\ WF_vars(ProcessorThread)

(***************************************************************************)
(* Datagrams whose sequence numbers come in any order: in order, across    *)
(* the wrap, repeated, backward, and forward by 1, 99, 100 and more; and a *)
(* datagram too short to parse.                                            *)
(***************************************************************************)
LossSeqs == {0, 1, 2, 101, 102, 65535}

LossDatagrams ==
    {Datagram([ssrc |-> 1, timestamp |-> 1000, sequence |-> q, marker |-> 0,
               payload |-> <<64, 1, 170, 187>>]) : q \in LossSeqs}
    \cup {<<128, 96, 0>>}

\* receive_packets, one iteration in which recvfrom returns one of these
RecvSeq ==
    \E data \in LossDatagrams :
        /\ running
        /\ npkts < MaxLoss
        /\ npkts' = npkts + 1
        /\ Arrive(data)
        /\ lastData' = data
        /\ NoCall("recv")
        /\ UNCHANGED <<fragments, xfragments, now, seqno, track, emitted,
                       running, frame_queue, decoder, last_cleanup_time,
                       prevCleanup, procNow, busy, prevBusy, handed, xvars,
                       qvars>>

NextLoss == RecvSeq \/ Proc

\* The online receiver fed sequence numbers in any order.
SpecLoss == InitRecv /\ [][NextLoss]_vars

(***************************************************************************)
(* One sender that sends FU packets of any kind in any order: start,       *)
(* middle and end fragments and fragments with S and E, under two          *)
(* timestamps, with loss and duplication, and no sweep.                    *)
(***************************************************************************)
AnyPackets(s) ==
    {[ssrc |-> s, timestamp |-> ts, sequence |-> seqno[s], marker |-> 0,
      payload |-> p] :
        ts \in Timestamps,
        p \in FuIdlePayloads(s, seqno[s]) \cup FragPayloads(s, seqno[s])}

\* An FU packet of sender s arrives.
DeliverAny(s) ==
    \E pkt \in AnyPackets(s) :
        /\ npkts < MaxPkts
        /\ Sent(pkt, TRUE)
        /\ Process(pkt)
        /\ UNCHANGED <<now, emitted, rvars, hvars, xvars, qvars>>

NextOne ==
    \/ DeliverAny(1)
    \/ Lose(1)
    \/ Redeliver(1)

SpecOne == InitRecv /\ [][NextOne]_vars

(***************************************************************************)
(* One sender whose FU packets carry any of three NAL headers, each packet *)
(* its own: the header of a later fragment may differ from that of the     *)
(* start fragment.                                                         *)
(***************************************************************************)
\* 26 01 (type 19), 83 0A (forbidden_zero_bit 1, type 1, layer 33, tid 2),
\* 62 01 (type 49)
NalHdrs == {<<38, 1>>, <<131, 10>>, <<98, 1>>}

HdrPackets(s) ==
    {[ssrc |-> s, timestamp |-> 1000, sequence |-> seqno[s], marker |-> 0,
      payload |-> FuPayload(h, S, E, Body(s, seqno[s]))] :
        h \in NalHdrs, S \in {0, 1}, E \in {0, 1}}

\* An FU packet of sender s arrives.
DeliverHdr(s) ==
    \E pkt \in HdrPackets(s) :
        /\ npkts < MaxPkts
        /\ Sent(pkt, TRUE)
        /\ Process(pkt)
        /\ UNCHANGED <<now, emitted, rvars, hvars, xvars, qvars>>

NextHdr == DeliverHdr(1)

SpecHdr == InitRecv /\ [][NextHdr]_vars

(***************************************************************************)
(* Raw datagrams: the online receiver and the loop of the offline          *)
(* extractor are fed datagrams with well-formed and malformed RTP headers. *)
(***************************************************************************)
\* RFC 3550 5.1: the fixed header with first byte byte0, payload type 96,
\* no marker, timestamp 1000, SSRC 1
FixedHeader(byte0, k) ==
    <<byte0, 96>> \o Pack16(k) \o Pack32(1000) \o Pack32(1)

\* datagrams with sequence number k whose header is well formed: plain, with
\* one CSRC, with a header extension of one word; they carry a single NAL
\* unit, a start fragment or an end fragment
GoodDatagrams(k) ==
    {FixedHeader(128, k) \o <<64, 1, 170, 187>>,
     FixedHeader(128, k) \o FuPayload(OrigHdr, 1, 0, Body(1, k)),
     FixedHeader(128, k) \o FuPayload(OrigHdr, 0, 1, Body(1, k)),
     FixedHeader(129, k) \o Pack32(7) \o <<64, 1, 170, 187>>,
     FixedHeader(144, k) \o <<190, 222, 0, 1>> \o <<1, 2, 3, 4>>
        \o <<64, 1, 170, 187>>}

\* datagrams of at least 12 bytes whose header runs over the end: the
\* extension bit with 2 bytes behind the fixed header; an extension of 2
\* words of which 1 is there; a CSRC count of 2 with 2 bytes behind the
\* fixed header
OverrunDatagrams(k) ==
    {FixedHeader(144, k) \o <<64, 1>>,
     FixedHeader(144, k) \o <<190, 222, 0, 2>> \o <<1, 2, 3, 4>>,
     FixedHeader(130, k) \o <<64, 1>>}

\* datagrams shorter than the fixed header: 11 bytes, 3 bytes, none
ShortDatagrams(k) ==
    {SubSeq(FixedHeader(128, k), 1, 11), <<128, 96, 0>>, <<>>}

RawDatagrams(k) ==
    GoodDatagrams(k) \cup OverrunDatagrams(k) \cup ShortDatagrams(k)

\* the sender's side of sending a raw datagram
SentRaw(s) ==
    /\ npkts < MaxRaw
    /\ npkts' = npkts + 1
    /\ seqno' = [seqno EXCEPT ![s] = (@ + 1) % SeqMod]
    /\ UNCHANGED track

\* extract_h265_stream, one iteration of the loop for a UDP packet of the
\* port with payload rtp_data
ExtractData(rtp_data) ==
    /\ packet_count' = packet_count + 1
    /\ prevX' = xfragments
    /\ IF Len(rtp_data) < 12
       THEN /\ xout' = None
            /\ UNCHANGED <<xfragments, rtp_packet_count, nal_units, unit_by>>
       ELSE LET rtp_packet == parse(rtp_data)
                r == x_process_packet(xfragments, rtp_packet)
            IN  /\ rtp_packet_count' = rtp_packet_count + 1
                /\ xfragments' = r.fragments
                /\ xout' = r.ret
                /\ nal_units' = IF r.ret # None THEN Append(nal_units, r.ret)
                                ELSE nal_units
                /\ unit_by' = IF r.ret # None
                              THEN Append(unit_by, packet_count + 1)
                              ELSE unit_by

\* A raw datagram of sender s reaches the socket of the online receiver, and
\* it is the next packet of the capture that the offline extractor reads.
FeedRaw(s) ==
    \E data \in RawDatagrams(seqno[s]) :
        /\ running
        /\ SentRaw(s)
        /\ Arrive(data)
        /\ ExtractData(data)
        /\ lastData' = data
        /\ op' = "feed"
        /\ lastPkt' = NoPkt
        /\ prevFragments' = fragments
        /\ out' = None
        /\ lastKey' = NoKey
        /\ UNCHANGED <<fragments, now, emitted, running, frame_queue,
                       decoder, last_cleanup_time, prevCleanup, procNow,
                       busy, prevBusy, handed, qvars>>

\* extract_h265_stream, one iteration for a packet that is not UDP of the
\* port
ExtractOther ==
    /\ npkts < MaxRaw
    /\ npkts' = npkts + 1
    /\ packet_count' = packet_count + 1
    /\ NoCall("skip")
    /\ NoData
    /\ UNCHANGED <<fragments, xfragments, now, seqno, track, emitted, rvars,
                   arrivals, handed, nal_units, rtp_packet_count, unit_by,
                   qvars>>

NextRaw ==
    \/ FeedRaw(1)
    \/ Proc
    \/ ExtractOther

\* The two programs fed raw datagrams of one sender.
SpecRaw == InitRecv /\ [][NextRaw]_vars

(***************************************************************************)
(* Properties of the fragmentation-unit reassembly (Spec).                 *)
(***************************************************************************)

\* the last step fed an FU packet to process_packet
FedFU == op = "send" /\ IsFU(lastPkt.payload)

\* the sender of the last packet, as it stands after that packet
LastTrack == track[lastPkt.ssrc]

\* the last packet belongs to a NAL of a conformant sender whose start
\* fragment was delivered once and whose middle fragments so far were all
\* delivered
InOrderNoLoss ==
    /\ LastTrack.conf
    /\ LastTrack.sdel
    /\ ~LastTrack.mlost
    /\ ~LastTrack.dup

\* C1: a NAL split across N >= 2 FU packets under one (ssrc, timestamp) and
\* fed in sending order without loss emits nothing before its end fragment,
\* and its end fragment emits the start code followed by the original NAL.
C1_FuRoundTrip ==
    (FedFU /\ InOrderNoLoss) =>
        /\ (IsStart(lastPkt.payload) \/ IsMiddle(lastPkt.payload))
              => out = None
        /\ (IsEnd(lastPkt.payload) /\ LastTrack.nfrag >= 2)
              => out = StartCode \o LastTrack.orig

C3_StartEndEmitsAtOnce ==
    (FedFU /\ StartBit(lastPkt.payload) = 1 /\ EndBit(lastPkt.payload) = 1)
    =>  /\ out = StartCode \o OrigHdr \o SliceFrom(lastPkt.payload, 3)
        /\ fragments = prevFragments
        /\ xout = out
        /\ xfragments = prevX

\* C4: when a middle fragment of a NAL was lost, the end fragment of that NAL
\* emits nothing.
C4_GapSuppressesEmission ==
    (/\ FedFU
     /\ IsEnd(lastPkt.payload)
     /\ LastTrack.conf
     /\ LastTrack.sdel
     /\ LastTrack.mlost
     /\ ~LastTrack.dup) => out = None

\* distance between a and b on the circle of 16-bit sequence numbers
ModDistance(a, b) ==
    IF (a - b) % SeqMod <= (b - a) % SeqMod
    THEN (a - b) % SeqMod
    ELSE (b - a) % SeqMod

\* the entry of the store with a key
EntryOf(frags, key) == frags[IndexOfKey(frags, key)]

\* C5: a continuation or end fragment is appended to the candidate whose
\* last_sequence + 1 is closest to the incoming sequence modulo 2^16.
C5_ClosestModulo ==
    (FedFU /\ lastKey # NoKey /\ LastTrack.conf) =>
        \A j \in Candidates(prevFragments, lastPkt) :
            ModDistance(EntryOf(prevFragments, lastKey).last_seq + 1,
                        lastPkt.sequence)
            <= ModDistance(prevFragments[j].last_seq + 1, lastPkt.sequence)

(***************************************************************************)
(* Two SSRCs under one timestamp (SpecTwo).                                *)
(***************************************************************************)

\* C6: with two fragmented NALs of different SSRCs under one timestamp, in
\* every interleaving that keeps each sender's packets in order, a fragment
\* is only ever appended to an entry of its own ssrc and timestamp, each end
\* fragment emits the NAL of its own sender, and once both NALs have ended
\* exactly two NALs have been emitted.
C6_TwoSsrcSeparate ==
    /\ (FedFU /\ lastKey # NoKey) =>
          /\ lastKey[1] = lastPkt.ssrc
          /\ lastKey[2] = lastPkt.timestamp
    /\ (FedFU /\ ~IsEnd(lastPkt.payload)) => out = None
    /\ (FedFU /\ IsEnd(lastPkt.payload)) =>
          out = StartCode \o LastTrack.orig
    /\ (\A s \in SSRCs : Done(s)) =>
          /\ Len(emitted) = 2
          /\ {emitted[1], emitted[2]}
                = {StartCode \o track[s].orig : s \in SSRCs}

\* C6 witness: the two senders use the same sequence numbers and their
\* packets were interleaved; the end fragment of sender 2 arrives while the
\* entries of both senders are in the store (sender 1 has sent its start and
\* a middle fragment) and emits the three-fragment NAL of sender 2, leaving
\* the entry of sender 1.
C6_Witness ==
    /\ FedFU
    /\ IsEnd(lastPkt.payload)
    /\ lastPkt.ssrc = 2
    /\ track[1].sseq = track[2].sseq
    /\ track[2].nfrag = MaxFrags
    /\ track[1].phase = "frag"
    /\ track[1].nfrag = 2
    /\ Len(prevFragments) = 2
    /\ Len(fragments) = 1
    /\ fragments[1].key[1] = 1
    /\ emitted = <<StartCode \o track[2].orig>>

(***************************************************************************)
(* Timeout sweeps and orphan fragments (SpecSweep).                        *)
(***************************************************************************)

\* C7: the timestamp of an entry is the time of its start or of its most
\* recent append; a sweep removes exactly the entries last updated more than
\* 500 ms ago: an entry 500 ms old or less stays, and when every entry is
\* older than 500 ms the store is left empty.
C7_SweepEvictsStale ==
    /\ (FedFU /\ StartBit(lastPkt.payload) = 1) =>
          \E j \in 1..Len(fragments) :
              /\ fragments[j].key
                    = <<lastPkt.ssrc, lastPkt.timestamp, lastPkt.sequence>>
              /\ fragments[j].timestamp = now
    /\ (FedFU /\ lastKey # NoKey /\ ~IsEnd(lastPkt.payload)) =>
          \E j \in 1..Len(fragments) :
              /\ fragments[j].key = lastKey
              /\ fragments[j].timestamp = now
    /\ op = "sweep" =>
          /\ \A i \in 1..Len(prevFragments) :
                now - prevFragments[i].timestamp <= 500 =>
                    \E j \in 1..Len(fragments) :
                        fragments[j] = prevFragments[i]
          /\ \A i \in 1..Len(prevFragments) :
                now - prevFragments[i].timestamp > 500 =>
                    \A j \in 1..Len(fragments) :
                        fragments[j].key # prevFragments[i].key
          /\ (\A i \in 1..Len(prevFragments) :
                now - prevFragments[i].timestamp > 500) => fragments = <<>>

\* C7 witness: a sweep has met an entry last updated exactly 500 ms ago, by
\* an append after its start, and kept it, and an entry older than 500 ms,
\* and removed it.
C7_Witness ==
    /\ op = "sweep"
    /\ \E i \in 1..Len(prevFragments) :
          /\ now - prevFragments[i].timestamp = 500
          /\ Len(prevFragments[i].data) > 3
          /\ \E j \in 1..Len(fragments) : fragments[j] = prevFragments[i]
    /\ \E i \in 1..Len(prevFragments) :
          /\ now - prevFragments[i].timestamp > 500
          /\ \A j \in 1..Len(fragments) :
                fragments[j].key # prevFragments[i].key

\* C8: a middle or end fragment for whose (ssrc, timestamp) the store holds
\* no entry emits nothing and leaves the store as it was, in both programs
\* (extract_h265.py keys its store by the timestamp alone).
C8_OrphanDropped ==
    /\ (/\ FedFU
        /\ StartBit(lastPkt.payload) = 0
        /\ ~ \E i \in 1..Len(prevFragments) :
                /\ prevFragments[i].key[1] = lastPkt.ssrc
                /\ prevFragments[i].key[2] = lastPkt.timestamp)
       => (out = None /\ fragments = prevFragments)
    /\ (/\ FedFU
        /\ StartBit(lastPkt.payload) = 0
        /\ lastPkt.timestamp \notin DOMAIN prevX)
       => (xout = None /\ xfragments = prevX)

\* C8 witness (scenario S5): the start fragment of the NAL was delivered, a
\* sweep has since evicted its entry, and the end fragment of the NAL arrives
\* and is dropped.
C8_Witness ==
    /\ FedFU
    /\ IsEnd(lastPkt.payload)
    /\ LastTrack.sdel
    /\ now > 500
    /\ \A i \in 1..Len(prevFragments) :
          prevFragments[i].key[2] # lastPkt.timestamp
    /\ out = None
    /\ fragments = prevFragments

(***************************************************************************)
(* The sweep of the online receiver (SpecRecv).                            *)
(***************************************************************************)

\* the last step processed a packet and invoked cleanup_old_fragments
Swept == op = "proc" /\ last_cleanup_time # prevCleanup

\* the last step invoked the sweep, an earlier step had invoked it too, and
\* from that earlier sweep on a packet was processed at every clock value
SweptAgainBusy == Swept /\ prevCleanup > 0 /\ prevBusy

\* C9 (as stated): while packets keep being dequeued and processed, two
\* consecutive invocations of the sweep are never more than 500 ms apart.
C9_SweepWithin500 ==
    SweptAgainBusy => last_cleanup_time - prevCleanup <= 500

\* C9 (amended): the sweep is invoked only when a packet is dequeued, and
\* then exactly when more than 500 ms have passed since the previous sweep
\* (since construction for the first one).  It runs before the packet is
\* depacketized, so it leaves no entry older than 500 ms, and
\* last_cleanup_time becomes the time of the sweep; otherwise
\* last_cleanup_time changes nowhere.  Two consecutive sweeps are therefore
\* always more than 500 ms apart, and no sweep happens at a time at which
\* no packet is processed.
C9_SweepThrottled ==
    /\ op = "proc" =>
          /\ Swept <=> now - prevCleanup > 500
          /\ Swept =>
                /\ last_cleanup_time = now
                /\ \A i \in 1..Len(fragments) :
                      now - fragments[i].timestamp <= 500
          /\ fragments =
                process_packet(IF Swept
                               THEN cleanup_old_fragments(prevFragments, now)
                               ELSE prevFragments,
                               lastPkt, now).fragments
    /\ last_cleanup_time <= now
    /\ (last_cleanup_time = now /\ now > 0) => procNow

\* a second sweep, 750 ms after the first, with packets processed at every
\* clock value in between, the last of them a fragment
C9_Witness ==
    /\ SweptAgainBusy
    /\ now - prevCleanup = 750
    /\ IsFU(lastPkt.payload)

(***************************************************************************)
(* Aggregation packets (SpecWhole).                                        *)
(***************************************************************************)

\* the NALs of a list, each behind a start code, in order
RECURSIVE Annexed(_)
Annexed(nals) ==
    IF nals = <<>> THEN <<>>
    ELSE StartCode \o Head(nals) \o Annexed(Tail(nals))

\* C10: an aggregation packet made of the AP header and N well-formed
\* (16-bit big-endian size, NAL) records emits exactly those N NALs, each
\* behind 00 00 00 01, in packet order, and leaves the fragment store as it
\* was, in both programs.
C10_ApRoundTrip ==
    \A nals \in NalLists :
        (op = "send" /\ lastPkt.payload = PackAP(nals)) =>
            /\ out = Annexed(nals)
            /\ fragments = prevFragments
            /\ xout = Annexed(nals)
            /\ xfragments = prevX

\* C10 witness: an AP of two different NALs, the long one first, has been
\* processed while the fragment store held an entry.
C10_Witness ==
    /\ op = "send"
    /\ lastPkt.payload = PackAP(<<BigNal, <<68, 1>> >>)
    /\ out = StartCode \o BigNal \o StartCode \o <<68, 1>>
    /\ prevFragments # <<>>
    /\ fragments = prevFragments

\* C11: an aggregation packet in which a record is truncated (one byte left
\* for the size field, or a declared size larger than what is left) emits
\* exactly the complete records before it, each behind 00 00 00 01, in
\* order, and nothing if there is none; the fragment store stays as it was;
\* in both programs.
C11_ApTruncated ==
    \A nals \in SmallLists, t \in TruncatedRecords :
        (op = "send" /\ lastPkt.payload = PackAP(nals) \o t) =>
            /\ out = Annexed(nals)
            /\ xout = Annexed(nals)
            /\ fragments = prevFragments
            /\ xfragments = prevX

\* C11 witness: two complete records and a record that declares 5 bytes
\* where 2 are left, processed while the fragment store held an entry
C11_Witness ==
    /\ op = "send"
    /\ lastPkt.payload = PackAP(<<<<68, 1>>, <<66, 1, 204>>>>) \o <<0, 5, 66, 1>>
    /\ out = StartCode \o <<68, 1>> \o StartCode \o <<66, 1, 204>>
    /\ xout = out
    /\ prevFragments # <<>>
    /\ fragments = prevFragments

(***************************************************************************)
(* The RTP header parser (SpecRaw).                                        *)
(***************************************************************************)

\* the last step handed a datagram to a program
FedData == op = "recv" \/ op = "feed"

\* the datagram has the fixed header, and either its extension bit is set
\* with fewer than 4 bytes behind the fixed header and the CSRC list, or the
\* header size 12 + 4*cc (+ 4 + 4*ext_length with the extension bit) is
\* larger than the datagram
HeaderOverruns(data) ==
    /\ Len(data) >= 12
    /\ LET cc        == data[1] % 16
           extension == (data[1] \div 16) % 2
           start     == 12 + 4 * cc
       IN  IF extension = 1
           THEN \/ start + 4 > Len(data)
                \/ start + 4 + 4 * U16(data[start + 3], data[start + 4])
                      > Len(data)
           ELSE start > Len(data)

\* C12: a datagram whose header runs over its end is rejected with a parse
\* error: no packet view is made of it.
C12_OverrunRejected ==
    (FedData /\ HeaderOverruns(lastData)) => lastView = NoView

(***************************************************************************)
(* Single NAL unit packets (SpecWhole).                                    *)
(***************************************************************************)

\* C13: a payload of at least 2 bytes whose type (bits 1-6 of the first
\* byte) is neither 48 nor 49 is emitted unchanged behind 00 00 00 01 as
\* one NAL; a payload of fewer than 2 bytes emits nothing; the fragment
\* store stays as it was in either case; in both programs.
C13_SingleNal ==
    op = "send" =>
        /\ (Len(lastPkt.payload) >= 2
            /\ (lastPkt.payload[1] \div 2) % 64 \notin {48, 49}) =>
                /\ out = <<0, 0, 0, 1>> \o lastPkt.payload
                /\ xout = <<0, 0, 0, 1>> \o lastPkt.payload
                /\ fragments = prevFragments
                /\ xfragments = prevX
        /\ Len(lastPkt.payload) < 2 =>
                /\ out = None
                /\ xout = None
                /\ fragments = prevFragments
                /\ xfragments = prevX

\* C13 witness: the 2-byte NAL 64 01 of type 50 has been emitted while the
\* fragment store held an entry
C13_Witness ==
    /\ op = "send"
    /\ lastPkt.payload = <<100, 1>>
    /\ out = <<0, 0, 0, 1, 100, 1>>
    /\ xout = out
    /\ prevFragments # <<>>
    /\ fragments = prevFragments

(***************************************************************************)
(* The order of the emitted NALs (SpecRaw).                                *)
(***************************************************************************)

\* the numbers of a sequence grow strictly
Increasing(numbers) ==
    \A i, j \in 1..Len(numbers) : i < j => numbers[i] < numbers[j]

\* the payload is that of an FU packet whose end bit is not set
FuWithoutEnd(payload) ==
    /\ Len(payload) >= 3
    /\ (payload[1] \div 2) % 64 = 49
    /\ (payload[3] \div 64) % 2 = 0

\* C14: the NALs reach the decoder of the online receiver, and nal_units of
\* the offline extractor, in the order in which the datagrams that completed
\* them were received; and no FU fragment without the end bit emits a NAL.
C14_EmittedInOrder ==
    /\ Increasing([i \in 1..Len(handed) |-> handed[i][1]])
    /\ Increasing(unit_by)
    /\ Len(unit_by) = Len(nal_units)
    /\ (op = "proc" /\ out # None) =>
          /\ handed # <<>>
          /\ handed[Len(handed)][2] = out
          /\ ~FuWithoutEnd(lastPkt.payload)
    /\ (op = "feed" /\ xout # None) =>
          /\ nal_units # <<>>
          /\ nal_units[Len(nal_units)] = xout
          /\ unit_by[Len(unit_by)] = packet_count
          /\ ~FuWithoutEnd(lastView.payload)

\* C14 witness: a single NAL unit, a start fragment and its end fragment were
\* received; the single NAL and then the reassembled NAL have reached the
\* decoder, and nal_units holds the same two
C14_Witness ==
    /\ op = "proc"
    /\ IsEnd(lastPkt.payload)
    /\ Len(handed) = 2
    /\ handed[1] = <<1, <<0, 0, 0, 1, 64, 1, 170, 187>> >>
    /\ handed[2][1] = 3
    /\ handed[2][2] = out
    /\ nal_units = <<handed[1][2], handed[2][2]>>
    /\ unit_by = <<1, 3>>

(***************************************************************************)
(* The fragment store after an end fragment (Spec).                        *)
(***************************************************************************)

\* the entries of the store but the one under key, in dict order
Without(frags, key) == SelectSeq(frags, LAMBDA entry : entry.key # key)

StoresAgree(frags, xfrags) ==
    /\ \A i \in 1..Len(frags) :
          /\ frags[i].key[2] \in DOMAIN xfrags
          /\ frags[i].data = xfrags[frags[i].key[2]]
    /\ \A t \in DOMAIN xfrags : \E i \in 1..Len(frags) : frags[i].key[2] = t
    /\ \A i, j \in 1..Len(frags) :
          frags[i].key[2] = frags[j].key[2] => i = j

\* the packet has the start bit, and the store holds an entry of its
\* timestamp that started at another sequence number
OverlappingStart(frags, packet) ==
    /\ Len(packet.payload) >= 3
    /\ StartBit(packet.payload) = 1
    /\ \E i \in 1..Len(frags) :
          /\ frags[i].key[2] = packet.timestamp
          /\ frags[i].key[3] # packet.sequence

LastOf(numbers) == IF numbers = <<>> THEN 0 ELSE numbers[Len(numbers)]

\* C17: a datagram of fewer than 12 bytes makes no packet; the online
\* receiver counts it and does not queue it, the offline loop counts it and
\* skips it; the fragment stores and the emitted NALs stay as they were and
\* the receiver keeps running.  A well-formed datagram with a single NAL
\* unit is queued by the receiver (the queue is far from full) and emitted by
\* the offline loop, whatever came before it.
C17_ShortDropped ==
    /\ (op = "feed" /\ Len(lastData) < 12) =>
          /\ lastView = NoView
          /\ stats.packets_received >= 1
          /\ LastOf(arrivals) < stats.packets_received
          /\ Len(arrivals) = Len(packet_queue)
          /\ fragments = prevFragments
          /\ xfragments = prevX
          /\ xout = None
          /\ LastOf(unit_by) < packet_count
          /\ running
    /\    (/\ op = "feed"
           /\ Len(lastData) = 16
           /\ lastData = FixedHeader(128, U16(lastData[3], lastData[4]))
                             \o <<64, 1, 170, 187>>) =>
              /\ lastView = parse(lastData)
              /\ lastView.payload = <<64, 1, 170, 187>>
              /\ LastOf(arrivals) = stats.packets_received
              /\ packet_queue[Len(packet_queue)] = lastView
              /\ xout = <<0, 0, 0, 1, 64, 1, 170, 187>>
              /\ LastOf(unit_by) = packet_count
              /\ nal_units[Len(nal_units)] = xout

\* C17 witness: a datagram of 3 bytes and then a single NAL unit of 16 bytes
\* were received; the NAL of the second has reached the decoder, and it is
\* the only element of nal_units
C17_Witness ==
    /\ op = "proc"
    /\ stats.packets_received = 2
    /\ stats.bytes_received = 19
    /\ handed = << <<2, <<0, 0, 0, 1, 64, 1, 170, 187>> >> >>
    /\ nal_units = << <<0, 0, 0, 1, 64, 1, 170, 187>> >>
    /\ unit_by = <<2>>
    /\ packet_count = 2
    /\ rtp_packet_count = 1

(***************************************************************************)
(* The frame buffer of the decoder (SpecRecv).                             *)
(***************************************************************************)

\* C18: whenever a packet with the marker bit has been processed, the frame
\* buffer has been handed to the decoder and is empty, also when the packet
\* itself yields no NAL.
C18_MarkerFlushes ==
    (op = "proc" /\ lastPkt.marker = 1) => decoder.frame_buffer = <<>>

(***************************************************************************)
(* The header of a reassembled NAL (SpecHdr).                              *)
(***************************************************************************)

\* (PayloadHdr AND 0x81FF) OR (fu_type << 9), as two bytes: of the first
\* byte of the PayloadHdr the top bit and the low bit stay and fu_type fills
\* the six bits between; the second byte stays
HeaderFromStart(payload) ==
    << (payload[1] \div 128) * 128 + (payload[3] % 64) * 2 + (payload[1] % 2),
       payload[2] >>

\* C19: a start fragment stores the header made of its own PayloadHdr and
\* fu_type; a later fragment leaves the header of the entry it is appended
\* to as it was; and the NAL an end fragment emits carries that header; in
\* both programs.
C19_HeaderFromStart ==
    (op = "send" /\ Len(lastPkt.payload) >= 3) =>
        /\ StartBit(lastPkt.payload) = 1 =>
              /\ lastKey = NoKey
              /\ \E i \in 1..Len(fragments) :
                    /\ fragments[i].key = <<lastPkt.ssrc, lastPkt.timestamp,
                                            lastPkt.sequence>>
                    /\ SubSeq(fragments[i].data, 1, 2)
                          = HeaderFromStart(lastPkt.payload)
              /\ SubSeq(xfragments[lastPkt.timestamp], 1, 2)
                    = HeaderFromStart(lastPkt.payload)
        /\ (StartBit(lastPkt.payload) = 0 /\ lastKey # NoKey) =>
              LET before == EntryOf(prevFragments, lastKey).data
              IN  /\ out # None => SubSeq(out, 5, 6) = SubSeq(before, 1, 2)
                  /\ out = None =>
                        SubSeq(EntryOf(fragments, lastKey).data, 1, 2)
                            = SubSeq(before, 1, 2)
        /\ (StartBit(lastPkt.payload) = 0
            /\ lastPkt.timestamp \in DOMAIN prevX) =>
              LET before == prevX[lastPkt.timestamp]
              IN  /\ xout # None => SubSeq(xout, 5, 6) = SubSeq(before, 1, 2)
                  /\ xout = None =>
                        SubSeq(xfragments[lastPkt.timestamp], 1, 2)
                            = SubSeq(before, 1, 2)

\* C19 witness: a start fragment of a NAL with header 83 0A, then an end
\* fragment that says 26 01 and type 19: the NAL 83 0A .. is emitted
C19_Witness ==
    /\ op = "send"
    /\ IsEnd(lastPkt.payload)
    /\ SentHdr(lastPkt.payload) = <<38, 1>>
    /\ Len(prevFragments) = 1
    /\ out # None
    /\ SubSeq(out, 1, 6) = <<0, 0, 0, 1, 131, 10>>
    /\ xout = out

(***************************************************************************)
(* packet_queue between its two threads (SpecQueue).                       *)
(***************************************************************************)

\* C20: whenever the receiver thread stands before put the queue has room,
\* so put does not wait; the queue never holds more than 1000 packets; a
\* packet that arrives at a full queue is dropped, and no dropped packet is
\* queued or processed afterwards; and the queue holds the packets in the
\* order of arrival, the processor thread taking the oldest.
C20_QueueDiscipline ==
    /\ pending # None => Len(packet_queue) < 1000
    /\ Len(packet_queue) <= 1000
    /\ (op = "test" /\ Len(packet_queue) = 1000) =>
          /\ pending = None
          /\ lastView.sequence \in dropped
    /\ \A i \in 1..Len(packet_queue) : packet_queue[i].sequence \notin dropped
    /\ pending # None => pending.sequence \notin dropped
    /\ op = "proc" => lastPkt.sequence \notin dropped
    /\ \A i \in 1..(Len(packet_queue) - 1) :
          packet_queue[i].sequence < packet_queue[i + 1].sequence
    /\ pending # None =>
          \A i \in 1..Len(packet_queue) :
              packet_queue[i].sequence < pending.sequence
    /\ (op = "proc" /\ packet_queue # <<>>) =>
          lastPkt.sequence < packet_queue[1].sequence

\* C20 witness: the queue was full and a packet was dropped, the processor
\* thread took a packet, and a later packet was put and filled the queue
\* again
C20_Witness ==
    /\ op = "put"
    /\ dropped # {}
    /\ Len(packet_queue) = 1000
    /\ \A q \in dropped : q < packet_queue[Len(packet_queue)].sequence
    /\ handed # <<>>

(***************************************************************************)
(* The end of the threads (SpecStop).                                      *)
(***************************************************************************)

\* C21: once running is False the receiver thread and the processor thread
\* both leave their loops.
C21_ThreadsLeave == (~running) ~> (rpc = "done" /\ ppc = "done")

\* C21 witness: both threads have left their loops; the quit came while
\* packets were waiting in packet_queue and before the socket was closed
C21_Witness ==
    /\ ~running
    /\ rpc = "done"
    /\ ppc = "done"
    /\ packet_queue # <<>>
    /\ sock = "open"

(***************************************************************************)
(* Loss accounting (SpecLoss).                                             *)
(***************************************************************************)

\* C22: a parsed packet after the first adds d = (sequence - (last_sequence
\* + 1)) mod 2^16 to lost_packets when 1 <= d < 100 and nothing otherwise;
\* every parsed packet sets last_sequence to its sequence; and lost_packets
\* never decreases.
C22_LossAccounting ==
    [][/\ stats'.lost_packets >= stats.lost_packets
       /\ (stats'.packets_received = stats.packets_received + 1
           /\ lastView' # NoView) =>
             LET expected == (stats.last_sequence + 1) % 65536
                 d        == (lastView'.sequence - expected) % 65536
             IN  /\ stats'.last_sequence = lastView'.sequence
                 /\ stats.last_sequence # -1 =>
                       stats'.lost_packets - stats.lost_packets
                           = IF 1 <= d /\ d < 100 THEN d ELSE 0]_vars

\* C22 witness: after 1 and 101, which counts 99 lost packets, the packet 0
\* arrives, a backward jump that counts nothing
C22_Witness ==
    /\ op = "recv"
    /\ stats.packets_received = 3
    /\ lastView # NoView
    /\ stats.last_sequence = 0
    /\ stats.lost_packets = 99

====
